---------------------------- MODULE Spec2Model ----------------------------
(* Model of command/ca/provisioner/provisioner.go:                          *)
(*   newCRUDClient    - selection of the provisioner store backend          *)
(*   readNebulaRoots  - loading the CA certificates of a nebula root file   *)
(*   removeElements   - swap-and-truncate removal on a Go string slice      *)
EXTENDS Integers, Sequences, FiniteSets, TLC

VARIABLES
    \* ---- newCRUDClient ----
    selPc,        \* position inside newCRUDClient
    configFile,   \* argument configFile
    fsEntry,      \* what the file system holds at configFile
    statErr,      \* err of os.Stat(configFile)
    config,       \* config returned by config.LoadConfiguration
    calls,        \* external calls made so far, in order
    selRet,       \* (crudClient, error) returned by newCRUDClient
    \* ---- readNebulaRoots ----
    rootsPc,      \* position inside readNebulaRoots
    rootFile,     \* argument rootFile
    rootEntry,    \* what the file system holds at rootFile
    b,            \* local b: the bytes still to parse / last marshaled blob
    certs,        \* local certs
    rootBytes,    \* local rootBytes
    idx,          \* index i of the marshal loop (1-based: next slot to fill)
    decoded,      \* blocks handed back by the decoder so far, in order
    rootsRet,     \* ([][]byte, error) returned by readNebulaRoots
    \* ---- removeElements ----
    remPc,        \* position of the caller of removeElements
    list,         \* the caller's slice (shares its array with the callee)
    rems,         \* the caller's rems slice
    list0,        \* the caller's slice contents before the call
    rems0,        \* the caller's rems contents before the call
    remRet        \* slice returned by removeElements

selVars == <<selPc, configFile, fsEntry, statErr, config, calls, selRet>>
rootsVars == <<rootsPc, rootFile, rootEntry, b, certs, rootBytes, idx, decoded, rootsRet>>
remVars == <<remPc, list, rems, list0, rems0, remRet>>
vars == <<selVars, rootsVars, remVars>>

\* Bounds of the model
MaxProvisioners == 3
MaxBlocks == 3
MaxList == 3
MaxRems == 3

Nil == [kind |-> "nil"]
None == [kind |-> "none"]

SeqsUpTo(S, n) == UNION {[1..m -> S] : m \in 0..n}

-----------------------------------------------------------------------------
(* newCRUDClient                                                            *)

ConfigFiles == {"ca.json", "alt/ca.json", "/etc/step/ca.json"}
CliCtx == [kind |-> "cli.Context"]

\* os.Stat outcomes: nil, ENOENT (errors.Is(err, os.ErrNotExist)), or another
\* error such as EACCES or ENOTDIR.
StatErrors == {"nil", "ENOENT", "EACCES", "ENOTDIR"}

\* The static provisioner lists a ca.json may hold.
ProvisionerLists == {[i \in 1..n |-> [Name |-> i]] : n \in 0..MaxProvisioners}

\* A file system entry at configFile: how stat answers and, for a file that
\* is there, whether it parses and what it holds.
FsEntries ==
    {[stat |-> e] : e \in StatErrors \ {"nil"}}
    \cup {[stat |-> "nil", parses |-> FALSE]}
    \cup {[stat |-> "nil", parses |-> TRUE,
           AuthorityConfig |-> [EnableAdmin |-> ea, Provisioners |-> ps]] :
              ea \in BOOLEAN, ps \in ProvisionerLists}

\* os.Stat(configFile): only the error is kept (the FileInfo is discarded).
Stat(entry) == [kind |-> "errno", errno |-> entry.stat]

\* config.LoadConfiguration(configFile)
LoadConfiguration(path, entry) ==
    IF entry.stat = "nil" /\ entry.parses
    THEN [config |-> [kind |-> "Config", AuthorityConfig |-> entry.AuthorityConfig,
                      loadedFrom |-> path],
          err |-> Nil]
    ELSE [config |-> Nil, err |-> [kind |-> "loadError", path |-> path]]

\* cautils.NewAdminClient(cliCtx) as seen from its call sites: the
\* remote-API-backed store built from the context it was given, or an error
\* of the admin connection; newCRUDClient returns either as it is.
NewAdminClient(ctx, ok) ==
    IF ok THEN [client |-> [kind |-> "adminClient", ctx |-> ctx], err |-> Nil]
    ELSE [client |-> Nil, err |-> [kind |-> "adminClientError"]]

\* newAdminAPIDisabledClient(ctx, config, configFile) as seen from its call
\* site: the file-backed store built from the configuration and the path it
\* was given, or an error; newCRUDClient returns either as it is.
newAdminAPIDisabledClient(cfg, path, ok) ==
    IF ok THEN [client |-> [kind |-> "adminAPIDisabledClient", config |-> cfg,
                            configFile |-> path],
                err |-> Nil]
    ELSE [client |-> Nil, err |-> [kind |-> "adminAPIDisabledClientError"]]

\* line 102: errors.Is(err, os.ErrNotExist)
IsNotExist_Mut(err) == err.errno \in {"ENOENT", "ENOTDIR"}
IsNotExist(err) == err.errno = "ENOENT"

\* line 109: config.AuthorityConfig.EnableAdmin
EnableAdmin_Mut(cfg) ==
    \/ cfg.AuthorityConfig.EnableAdmin
    \/ Len(cfg.AuthorityConfig.Provisioners) = 0
EnableAdmin(cfg) == cfg.AuthorityConfig.EnableAdmin

\* line 110: len(config.AuthorityConfig.Provisioners) > 0
HasProvisioners_Mut(cfg) == Len(cfg.AuthorityConfig.Provisioners) > 1
HasProvisioners(cfg) == Len(cfg.AuthorityConfig.Provisioners) > 0

\* line 107: fmt.Errorf("error loading configuration: %w", err)
LoadError_Mut(err) == err
LoadError(err) == [kind |-> "error loading configuration", cause |-> err]

\* newCRUDClient is entered with some configFile over some file system; the
\* other two functions are not running.
InitSelect ==
    /\ selPc = "stat"
    /\ configFile \in ConfigFiles
    /\ fsEntry \in FsEntries
    /\ statErr = None
    /\ config = None
    /\ calls = <<>>
    /\ selRet = None
    /\ rootsPc = "idle" /\ rootFile = "" /\ rootEntry = None /\ b = <<>>
    /\ certs = <<>> /\ rootBytes = <<>> /\ idx = 0 /\ decoded = <<>>
    /\ rootsRet = None
    /\ remPc = "idle" /\ list = <<>> /\ rems = <<>> /\ list0 = <<>>
    /\ rems0 = <<>> /\ remRet = None

\* line 100: _, err := os.Stat(configFile)
SelStat ==
    /\ selPc = "stat"
    /\ statErr' = Stat(fsEntry)
    /\ calls' = Append(calls, [fn |-> "os.Stat", path |-> configFile])
    /\ selPc' = "switch"
    /\ UNCHANGED <<configFile, fsEntry, config, selRet>>
    /\ UNCHANGED <<rootsVars, remVars>>

\* lines 102-103: case errors.Is(err, os.ErrNotExist)
SelNotExist ==
    /\ selPc = "switch"
    /\ IsNotExist(statErr)
    /\ \E ok \in BOOLEAN : selRet' = NewAdminClient(CliCtx, ok)
    /\ calls' = Append(calls, [fn |-> "NewAdminClient", ctx |-> CliCtx])
    /\ selPc' = "done"
    /\ UNCHANGED <<configFile, fsEntry, statErr, config>>
    /\ UNCHANGED <<rootsVars, remVars>>

\* lines 104-108: case err == nil: load the configuration
SelLoad ==
    /\ selPc = "switch"
    /\ ~IsNotExist(statErr)
    /\ statErr.errno = "nil"
    /\ LET r == LoadConfiguration(configFile, fsEntry) IN
         /\ calls' = Append(calls, [fn |-> "LoadConfiguration", path |-> configFile])
         /\ IF r.err # Nil
            THEN /\ selRet' = [client |-> Nil, err |-> LoadError(r.err)]
                 /\ selPc' = "done"
                 /\ config' = config
            ELSE /\ config' = r.config
                 /\ selPc' = "loaded"
                 /\ selRet' = selRet
    /\ UNCHANGED <<configFile, fsEntry, statErr>>
    /\ UNCHANGED <<rootsVars, remVars>>

\* lines 109-112: EnableAdmin with a non-empty provisioners list
SelConflict ==
    /\ selPc = "loaded"
    /\ EnableAdmin(config)
    /\ HasProvisioners(config)
    /\ selRet' = [client |-> Nil, err |-> [kind |-> "enableAdmin conflict"]]
    /\ selPc' = "done"
    /\ UNCHANGED <<configFile, fsEntry, statErr, config, calls>>
    /\ UNCHANGED <<rootsVars, remVars>>

\* lines 109, 113: EnableAdmin with an empty provisioners list
SelAdmin ==
    /\ selPc = "loaded"
    /\ EnableAdmin(config)
    /\ ~HasProvisioners(config)
    /\ \E ok \in BOOLEAN : selRet' = NewAdminClient(CliCtx, ok)
    /\ calls' = Append(calls, [fn |-> "NewAdminClient", ctx |-> CliCtx])
    /\ selPc' = "done"
    /\ UNCHANGED <<configFile, fsEntry, statErr, config>>
    /\ UNCHANGED <<rootsVars, remVars>>

\* lines 109, 115: the administration API is disabled
SelDisabled ==
    /\ selPc = "loaded"
    /\ ~EnableAdmin(config)
    /\ \E ok \in BOOLEAN : selRet' = newAdminAPIDisabledClient(config, configFile, ok)
    /\ calls' = Append(calls, [fn |-> "newAdminAPIDisabledClient",
                               config |-> config, configFile |-> configFile])
    /\ selPc' = "done"
    /\ UNCHANGED <<configFile, fsEntry, statErr, config>>
    /\ UNCHANGED <<rootsVars, remVars>>

\* lines 116-117: default: errs.FileError(err, configFile)
SelDefault ==
    /\ selPc = "switch"
    /\ ~IsNotExist(statErr)
    /\ statErr.errno # "nil"
    /\ selRet' = [client |-> Nil,
                  err |-> [kind |-> "FileError", cause |-> statErr,
                           path |-> configFile]]
    /\ selPc' = "done"
    /\ UNCHANGED <<configFile, fsEntry, statErr, config, calls>>
    /\ UNCHANGED <<rootsVars, remVars>>

NextSelect ==
    \/ SelStat
    \/ SelNotExist
    \/ SelLoad
    \/ SelConflict
    \/ SelAdmin
    \/ SelDisabled
    \/ SelDefault

SpecSelect == InitSelect /\ [][NextSelect]_vars

\* ---- what the run was given, read off the file system entry ----
FileAbsent == fsEntry.stat = "ENOENT"
StatFailsOtherwise == fsEntry.stat \notin {"nil", "ENOENT"}
FileLoads == fsEntry.stat = "nil" /\ fsEntry.parses
FileFailsToLoad == fsEntry.stat = "nil" /\ ~fsEntry.parses
FileEnableAdmin == FileLoads /\ fsEntry.AuthorityConfig.EnableAdmin
FileProvisioners == fsEntry.AuthorityConfig.Provisioners

\* ---- what the run did ----
Called(fn) == \E i \in 1..Len(calls) : calls[i].fn = fn
CountCalls(fn) == Cardinality({i \in 1..Len(calls) : calls[i].fn = fn})
RemoteCase ==
    \/ FileAbsent
    \/ FileEnableAdmin /\ Len(FileProvisioners) = 0

\* C1: a configuration file that loads with EnableAdmin = true and a non-empty
\* provisioners list makes newCRUDClient return (nil, conflict error), and
\* cautils.NewAdminClient is not called at any point of that run.
C1_ConflictRejected ==
    (FileEnableAdmin /\ Len(FileProvisioners) > 0) =>
        /\ ~Called("NewAdminClient")
        /\ ~Called("newAdminAPIDisabledClient")
        /\ selPc = "done" =>
              /\ selRet.client = Nil
              /\ selRet.err = [kind |-> "enableAdmin conflict"]
C1_Witness ==
    /\ selPc = "done"
    /\ FileEnableAdmin /\ Len(FileProvisioners) > 0
    /\ selRet.err.kind = "enableAdmin conflict"

\* C2: newCRUDClient calls cautils.NewAdminClient (once, returning its result)
\* exactly when the file is absent or loads with EnableAdmin = true and an
\* empty provisioners list; when the file is absent the configuration is not
\* loaded; in both cases newAdminAPIDisabledClient is not called.
C2_RemoteIff ==
    /\ Called("NewAdminClient") => RemoteCase
    /\ (selPc = "done" /\ RemoteCase) =>
          /\ CountCalls("NewAdminClient") = 1
          /\ selRet \in {NewAdminClient(CliCtx, ok) : ok \in BOOLEAN}
    /\ (selPc = "done" /\ selRet.client # Nil /\ selRet.client.kind = "adminClient")
          => RemoteCase
    /\ RemoteCase => ~Called("newAdminAPIDisabledClient")
    /\ FileAbsent => ~Called("LoadConfiguration")
C2_Witness ==
    /\ selPc = "done"
    /\ FileEnableAdmin /\ Len(FileProvisioners) = 0
    /\ selRet.client = [kind |-> "adminClient", ctx |-> CliCtx]
C2_WitnessAbsent ==
    /\ selPc = "done"
    /\ FileAbsent
    /\ selRet.client = [kind |-> "adminClient", ctx |-> CliCtx]

\* The configuration newCRUDClient must have loaded from the file.
LoadedConfig ==
    [kind |-> "Config", AuthorityConfig |-> fsEntry.AuthorityConfig,
     loadedFrom |-> configFile]

\* C3: a configuration file that loads with EnableAdmin = false makes
\* newCRUDClient call newAdminAPIDisabledClient with the loaded configuration
\* and the same path and return its result, for every length of the
\* provisioners list, and cautils.NewAdminClient is never called.
C3_FileBacked ==
    (FileLoads /\ ~FileEnableAdmin) =>
        /\ ~Called("NewAdminClient")
        /\ selPc = "done" =>
              /\ CountCalls("newAdminAPIDisabledClient") = 1
              /\ calls[Len(calls)] =
                    [fn |-> "newAdminAPIDisabledClient",
                     config |-> LoadedConfig, configFile |-> configFile]
              /\ selRet \in {newAdminAPIDisabledClient(LoadedConfig, configFile, ok) :
                                ok \in BOOLEAN}
C3_Witness ==
    /\ selPc = "done"
    /\ FileLoads /\ ~FileEnableAdmin
    /\ Len(FileProvisioners) > 0
    /\ selRet.client # Nil
    /\ selRet.client.kind = "adminAPIDisabledClient"
C3_WitnessEmpty ==
    /\ selPc = "done"
    /\ FileLoads /\ ~FileEnableAdmin
    /\ Len(FileProvisioners) = 0
    /\ selRet.client # Nil
    /\ selRet.client.kind = "adminAPIDisabledClient"

\* C4: a stat error other than not-exist yields (nil, FileError) without any
\* call of LoadConfiguration; a file that is there but fails to load yields
\* (nil, wrapped load error); in both cases neither store constructor is
\* called.
C4_ErrorsPropagate ==
    /\ StatFailsOtherwise =>
          /\ ~Called("LoadConfiguration")
          /\ ~Called("NewAdminClient")
          /\ ~Called("newAdminAPIDisabledClient")
          /\ selPc = "done" =>
                selRet = [client |-> Nil,
                          err |-> [kind |-> "FileError",
                                   cause |-> [kind |-> "errno", errno |-> fsEntry.stat],
                                   path |-> configFile]]
    /\ FileFailsToLoad =>
          /\ ~Called("NewAdminClient")
          /\ ~Called("newAdminAPIDisabledClient")
          /\ selPc = "done" =>
                selRet = [client |-> Nil,
                          err |-> [kind |-> "error loading configuration",
                                   cause |-> [kind |-> "loadError",
                                              path |-> configFile]]]
C4_Witness ==
    /\ selPc = "done"
    /\ FileFailsToLoad
    /\ selRet.err.kind = "error loading configuration"
C4_WitnessStat ==
    /\ selPc = "done"
    /\ StatFailsOtherwise
    /\ selRet.err.kind = "FileError"

-----------------------------------------------------------------------------
(* readNebulaRoots                                                          *)

RootFiles == {"roots.crt", "chain.pem"}

\* A root file is a run of PEM blocks. A block holds a CA certificate, a leaf
\* certificate, or bytes the decoder rejects (a truncated or malformed block).
BlockKinds == {"ca", "leaf", "malformed"}
BlockSeqs ==
    UNION {{[i \in 1..n |-> [id |-> i, kind |-> k[i]]] : k \in [1..n -> BlockKinds]} :
              n \in 0..MaxBlocks}
RootEntries ==
    {[readable |-> FALSE]} \cup {[readable |-> TRUE, blocks |-> bs] : bs \in BlockSeqs}

\* utils.ReadFile(rootFile)
ReadFile(path, entry) ==
    IF entry.readable
    THEN [b |-> entry.blocks, err |-> Nil]
    ELSE [b |-> <<>>, err |-> [kind |-> "readFileError", path |-> path]]

\* nebula.UnmarshalNebulaCertificateFromPEM(b): decodes the block at the front
\* of the buffer and hands back the certificate and the bytes after it.
UnmarshalNebulaCertificateFromPEM(buf) ==
    LET blk == Head(buf) IN
    IF blk.kind = "malformed"
    THEN [crt |-> Nil, rest |-> Tail(buf),
          err |-> [kind |-> "unmarshalError", block |-> blk.id]]
    ELSE [crt |-> [Details |-> [IsCA |-> (blk.kind = "ca"), Name |-> blk.id]],
          rest |-> Tail(buf), err |-> Nil]

\* crt.MarshalToPEM(): the PEM encoding of the certificate, or an error.
MarshalToPEM(crt, ok) ==
    IF ok
    THEN [pem |-> [Type |-> "NEBULA CERTIFICATE", Bytes |-> crt.Details], err |-> Nil]
    ELSE [pem |-> Nil, err |-> [kind |-> "marshalError"]]

\* line 368: for len(b) > 0
MoreToParse_Mut(buf) == Len(buf) > 1
MoreToParse(buf) == Len(buf) > 0

\* line 373: if crt.Details.IsCA
IsCA_Mut(crt) == TRUE
IsCA(crt) == crt.Details.IsCA

\* line 377: if len(certs) == 0
NoCerts_Mut(cs) == Len(cs) < 0
NoCerts(cs) == Len(cs) = 0

\* readNebulaRoots is entered with some rootFile over some file system; the
\* other two functions are not running.
InitRoots ==
    /\ rootsPc = "read"
    /\ rootFile \in RootFiles
    /\ rootEntry \in RootEntries
    /\ b = <<>>
    /\ certs = <<>>
    /\ rootBytes = <<>>
    /\ idx = 0
    /\ decoded = <<>>
    /\ rootsRet = None
    /\ selPc = "idle" /\ configFile = "" /\ fsEntry = None /\ statErr = None
    /\ config = None /\ calls = <<>> /\ selRet = None
    /\ remPc = "idle" /\ list = <<>> /\ rems = <<>> /\ list0 = <<>>
    /\ rems0 = <<>> /\ remRet = None

\* lines 361-364: b, err := utils.ReadFile(rootFile)
RootsReadFile ==
    /\ rootsPc = "read"
    /\ LET r == ReadFile(rootFile, rootEntry) IN
         /\ b' = r.b
         /\ IF r.err # Nil
            THEN /\ rootsRet' = [roots |-> Nil, err |-> r.err]
                 /\ rootsPc' = "done"
            ELSE /\ rootsRet' = rootsRet
                 /\ rootsPc' = "parse"
    /\ UNCHANGED <<rootFile, rootEntry, certs, rootBytes, idx, decoded>>
    /\ UNCHANGED <<selVars, remVars>>

\* A decoder error that is skipped instead of returned.
RootsUnmarshal_Mut ==
    /\ rootsPc = "parse"
    /\ MoreToParse(b)
    /\ LET r == UnmarshalNebulaCertificateFromPEM(b) IN
         /\ b' = r.rest
         /\ decoded' = Append(decoded, Head(b))
         /\ certs' = IF r.err = Nil /\ IsCA(r.crt) THEN Append(certs, r.crt) ELSE certs
    /\ UNCHANGED <<rootsPc, rootsRet, rootFile, rootEntry, rootBytes, idx>>
    /\ UNCHANGED <<selVars, remVars>>

\* lines 368-376: one iteration of the parse loop
RootsUnmarshal ==
    /\ rootsPc = "parse"
    /\ MoreToParse(b)
    /\ LET r == UnmarshalNebulaCertificateFromPEM(b) IN
         /\ b' = r.rest
         /\ decoded' = Append(decoded, Head(b))
         /\ IF r.err # Nil
            THEN /\ rootsRet' = [roots |-> Nil,
                                 err |-> [kind |-> "error reading", path |-> rootFile,
                                          cause |-> r.err]]
                 /\ rootsPc' = "done"
                 /\ certs' = certs
            ELSE /\ certs' = IF IsCA(r.crt) THEN Append(certs, r.crt) ELSE certs
                 /\ UNCHANGED <<rootsPc, rootsRet>>
    /\ UNCHANGED <<rootFile, rootEntry, rootBytes, idx>>
    /\ UNCHANGED <<selVars, remVars>>

\* lines 368, 377-379: the buffer is empty and no CA certificate was kept
RootsNoCA ==
    /\ rootsPc = "parse"
    /\ ~MoreToParse(b)
    /\ NoCerts(certs)
    /\ rootsRet' = [roots |-> Nil,
                    err |-> [kind |-> "no CA certificates found", path |-> rootFile]]
    /\ rootsPc' = "done"
    /\ UNCHANGED <<rootFile, rootEntry, b, certs, rootBytes, idx, decoded>>
    /\ UNCHANGED <<selVars, remVars>>

\* lines 368, 377, 381: rootBytes := make([][]byte, len(certs))
RootsMake ==
    /\ rootsPc = "parse"
    /\ ~MoreToParse(b)
    /\ ~NoCerts(certs)
    /\ rootBytes' = [i \in 1..Len(certs) |-> Nil]
    /\ idx' = 1
    /\ rootsPc' = "marshal"
    /\ UNCHANGED <<rootFile, rootEntry, b, certs, decoded, rootsRet>>
    /\ UNCHANGED <<selVars, remVars>>

\* lines 382-388: one iteration of the marshal loop
RootsMarshal ==
    /\ rootsPc = "marshal"
    /\ idx <= Len(certs)
    /\ \E ok \in BOOLEAN :
         LET r == MarshalToPEM(certs[idx], ok) IN
           /\ b' = r.pem
           /\ IF r.err # Nil
              THEN /\ rootsRet' = [roots |-> Nil,
                                   err |-> [kind |-> "error marshaling certificate",
                                            cause |-> r.err]]
                   /\ rootsPc' = "done"
                   /\ UNCHANGED <<rootBytes, idx>>
              ELSE /\ rootBytes' = [rootBytes EXCEPT ![idx] = r.pem]
                   /\ idx' = idx + 1
                   /\ UNCHANGED <<rootsPc, rootsRet>>
    /\ UNCHANGED <<rootFile, rootEntry, certs, decoded>>
    /\ UNCHANGED <<selVars, remVars>>

\* line 390: return rootBytes, nil
RootsReturn ==
    /\ rootsPc = "marshal"
    /\ ~(idx <= Len(certs))
    /\ rootsRet' = [roots |-> rootBytes, err |-> Nil]
    /\ rootsPc' = "done"
    /\ UNCHANGED <<rootFile, rootEntry, b, certs, rootBytes, idx, decoded>>
    /\ UNCHANGED <<selVars, remVars>>

NextRoots ==
    \/ RootsReadFile
    \/ RootsUnmarshal
    \/ RootsNoCA
    \/ RootsMake
    \/ RootsMarshal
    \/ RootsReturn

SpecRoots == InitRoots /\ [][NextRoots]_vars

\* readNebulaRoots is straight-line sequential code: whenever a step of it is
\* possible, a step is taken.
SpecRootsFair == InitRoots /\ [][NextRoots]_vars /\ WF_vars(NextRoots)

\* ---- what the run was given, read off the root file ----
FileBlocks == rootEntry.blocks
IsCABlock(blk) == blk.kind = "ca"
IsMalformedBlock(blk) == blk.kind = "malformed"
CABlocks == SelectSeq(FileBlocks, IsCABlock)
AllDecode == rootEntry.readable /\ \A i \in 1..Len(FileBlocks) : ~IsMalformedBlock(FileBlocks[i])
SomeMalformed == rootEntry.readable /\ \E i \in 1..Len(FileBlocks) : IsMalformedBlock(FileBlocks[i])
FirstMalformed == CHOOSE i \in 1..Len(FileBlocks) :
    /\ IsMalformedBlock(FileBlocks[i])
    /\ \A j \in 1..(i - 1) : ~IsMalformedBlock(FileBlocks[j])
\* The PEM blob of the CA certificate held by a block.
BlobOf(blk) ==
    [Type |-> "NEBULA CERTIFICATE", Bytes |-> [IsCA |-> TRUE, Name |-> blk.id]]
RootsSucceeded == rootsPc = "done" /\ rootsRet.err = Nil

\* C5: when readNebulaRoots succeeds, every block of the file decoded and the
\* result holds, in file order, exactly the PEM blob of each CA certificate of
\* the file: as many blobs as CA certificates, none for a leaf.
C5_ExactlyTheCAs ==
    RootsSucceeded =>
        /\ AllDecode
        /\ Len(rootsRet.roots) = Len(CABlocks)
        /\ \A i \in 1..Len(CABlocks) : rootsRet.roots[i] = BlobOf(CABlocks[i])
C5_Witness ==
    /\ RootsSucceeded
    /\ Len(FileBlocks) = 3
    /\ Len(CABlocks) = 2
    /\ FileBlocks[2].kind = "leaf"
    /\ Len(rootsRet.roots) = 2

\* C6: readNebulaRoots never returns an empty list without an error; a file
\* whose blocks all decode and hold no CA certificate (zero blocks included)
\* yields (nil, "no CA certificates found" naming rootFile).
C6_NeverEmpty ==
    /\ RootsSucceeded => Len(rootsRet.roots) > 0
    /\ (rootsPc = "done" /\ AllDecode /\ Len(CABlocks) = 0) =>
          rootsRet = [roots |-> Nil,
                      err |-> [kind |-> "no CA certificates found", path |-> rootFile]]
C6_Witness ==
    /\ rootsPc = "done"
    /\ AllDecode
    /\ Len(FileBlocks) > 0
    /\ Len(CABlocks) = 0
    /\ rootsRet.err.kind = "no CA certificates found"
C6_WitnessZeroBytes ==
    /\ rootsPc = "done"
    /\ rootEntry.readable
    /\ FileBlocks = <<>>
    /\ rootsRet.err.kind = "no CA certificates found"

\* C7: when some block of the file fails to decode, readNebulaRoots returns
\* (nil, error reading rootFile wrapping the decoder's error for the first such
\* block), whatever was decoded before it; no block after it is ever decoded.
C7_NoPartialResult ==
    SomeMalformed =>
        /\ Len(decoded) <= FirstMalformed
        /\ rootsPc \in {"read", "parse", "done"}
        /\ rootsPc = "done" =>
              rootsRet = [roots |-> Nil,
                          err |-> [kind |-> "error reading", path |-> rootFile,
                                   cause |-> [kind |-> "unmarshalError",
                                              block |-> FirstMalformed]]]
C7_Witness ==
    /\ rootsPc = "done"
    /\ SomeMalformed
    /\ FirstMalformed > 1
    /\ Len(certs) > 0
    /\ rootsRet.roots = Nil
    /\ rootsRet.err.kind = "error reading"

\* ---- the parse loop ----
\* The number of blocks the parse loop decodes before it is left: up to and
\* including the first block that fails to decode, or all of them.
BlocksToDecode == IF SomeMalformed THEN FirstMalformed ELSE Len(FileBlocks)
\* How the call ended.
Outcome == IF rootsRet.err = Nil THEN "success" ELSE rootsRet.err.kind
\* While the loop runs, the blocks decoded so far are the leading blocks of
\* the file, each once and in file order, and b is what follows them.
LoopDecodesFromTheFront ==
    (rootEntry.readable /\ rootsPc # "read") =>
        /\ Len(decoded) <= BlocksToDecode
        /\ decoded = SubSeq(FileBlocks, 1, Len(decoded))
        /\ rootsPc = "parse" =>
              b = SubSeq(FileBlocks, Len(decoded) + 1, Len(FileBlocks))
\* Once the loop is left it has stopped at the first decode failure or at the
\* empty buffer, and the call ends in one of the four outcomes.
LoopStopsWhereItShould ==
    (rootEntry.readable /\ rootsPc \in {"marshal", "done"}) =>
        /\ Len(decoded) = BlocksToDecode
        /\ rootsPc = "done" =>
              /\ Outcome \in {"success", "error reading",
                              "no CA certificates found",
                              "error marshaling certificate"}
              /\ (Outcome = "error reading") = SomeMalformed
              /\ (Outcome = "no CA certificates found") =
                    (AllDecode /\ Len(CABlocks) = 0)
              /\ (Outcome = "success") => Len(rootsRet.roots) > 0
              /\ (Outcome # "success") => rootsRet.roots = Nil

\* C11: for every file that was read, the parse loop decodes the blocks from
\* the front, each once and in file order, stops at the first decode failure
\* or at the empty buffer, and the call then ends: with the roots, the
\* certificate-parse error, the no-CA error or the marshal error.
C11_ParseLoopTerminates ==
    /\ [](LoopDecodesFromTheFront /\ LoopStopsWhereItShould)
    /\ (rootsPc = "parse") ~> (rootsPc = "done")
C11_Witness ==
    /\ rootsPc = "done"
    /\ AllDecode
    /\ Len(FileBlocks) = MaxBlocks
    /\ decoded = FileBlocks
    /\ Outcome = "success"

-----------------------------------------------------------------------------
(* removeElements                                                           *)

Elems == {"a", "b", "c"}

\* lines 141-142: the first index i of list[:n] with list[i] == rem, 0 if none
FirstMatch(arr, n, rem) ==
    IF \E i \in 1..n : arr[i] = rem
    THEN CHOOSE i \in 1..n : arr[i] = rem /\ \A j \in 1..(i - 1) : arr[j] # rem
    ELSE 0

\* line 143: list[i] = list[len(list)-1], a write into the array the caller's
\* slice shares
Overwrite_NoCopy(arr, n, i) == arr
Overwrite_Swap(arr, n, i) == [arr EXCEPT ![i] = arr[n], ![n] = arr[i]]
Overwrite(arr, n, i) == [arr EXCEPT ![i] = arr[n]]

\* line 144: list = list[:len(list)-1]
Truncate_Mut(n) == n
Truncate(n) == n - 1

\* lines 140-148: the loop over rems from entry k on; arr is the shared array
\* and n the current length of the callee's slice
RECURSIVE RemoveLoop(_, _, _, _)
RemoveLoop(arr, n, rs, k) ==
    IF k > Len(rs)
    THEN [array |-> arr, len |-> n]
    ELSE LET i == FirstMatch(arr, n, rs[k]) IN
         IF i = 0
         THEN RemoveLoop(arr, n, rs, k + 1)
         ELSE RemoveLoop(Overwrite(arr, n, i), Truncate(n), rs, k + 1)

\* lines 136-150: array is the caller's slice as the call leaves it, ret the
\* returned slice (a prefix of the same array)
removeElements(l, rs) ==
    IF Len(l) = 0
    THEN [array |-> l, ret |-> l]
    ELSE LET r == RemoveLoop(l, Len(l), rs, 1) IN
         [array |-> r.array, ret |-> SubSeq(r.array, 1, r.len)]

\* A caller holds list and rems and is about to call removeElements; the
\* other two functions are not running.
InitRemove ==
    /\ remPc = "call"
    /\ list \in SeqsUpTo(Elems, MaxList)
    /\ rems \in SeqsUpTo(Elems, MaxRems)
    /\ list0 = list
    /\ rems0 = rems
    /\ remRet = None
    /\ selPc = "idle" /\ configFile = "" /\ fsEntry = None /\ statErr = None
    /\ config = None /\ calls = <<>> /\ selRet = None
    /\ rootsPc = "idle" /\ rootFile = "" /\ rootEntry = None /\ b = <<>>
    /\ certs = <<>> /\ rootBytes = <<>> /\ idx = 0 /\ decoded = <<>>
    /\ rootsRet = None

\* the call removeElements(list, rems)
CallRemoveElements ==
    /\ remPc = "call"
    /\ LET r == removeElements(list, rems) IN
         /\ list' = r.array
         /\ remRet' = r.ret
    /\ remPc' = "returned"
    /\ UNCHANGED <<rems, list0, rems0>>
    /\ UNCHANGED <<selVars, rootsVars>>

NextRemove ==
    \/ CallRemoveElements

SpecRemove == InitRemove /\ [][NextRemove]_vars

Range(q) == {q[i] : i \in 1..Len(q)}
Count(q, v) == Cardinality({i \in 1..Len(q) : q[i] = v})
Returned == remPc = "returned"

\* C8 as stated: no element of the result is an entry of rems that had an
\* occurrence in list.
C8_NoRemovedRemains ==
    Returned =>
        \A i \in 1..Len(remRet) :
            ~(remRet[i] \in Range(rems0) /\ remRet[i] \in Range(list0))

\* C8 (amended): an element of the result is an entry of rems only if list
\* held more occurrences of it than rems does; when no element occurs more
\* often in list than in rems, no element of the result is an entry of rems.
C8_RemainsOnlyIfOutnumbering ==
    Returned =>
        /\ \A i \in 1..Len(remRet) :
              remRet[i] \in Range(rems0) =>
                  Count(list0, remRet[i]) > Count(rems0, remRet[i])
        /\ (\A v \in Range(rems0) : Count(list0, v) <= Count(rems0, v)) =>
              Range(remRet) \cap Range(rems0) = {}
C8_Witness ==
    /\ Returned
    /\ list0 = <<"a", "b", "a">>
    /\ rems0 = <<"a", "b">>
    /\ remRet = <<"a">>

\* The occurrences of each element left after the entries of rs, taken in
\* order from entry k on, have each removed one occurrence that is still there.
RECURSIVE RemoveFromCounts(_, _, _)
RemoveFromCounts(c, rs, k) ==
    IF k > Len(rs)
    THEN c
    ELSE IF c[rs[k]] > 0
         THEN RemoveFromCounts([c EXCEPT ![rs[k]] = c[rs[k]] - 1], rs, k + 1)
         ELSE RemoveFromCounts(c, rs, k + 1)
\* The number of entries of rs, from entry k on, that removed an occurrence.
RECURSIVE Matched(_, _, _)
Matched(c, rs, k) ==
    IF k > Len(rs)
    THEN 0
    ELSE IF c[rs[k]] > 0
         THEN 1 + Matched([c EXCEPT ![rs[k]] = c[rs[k]] - 1], rs, k + 1)
         ELSE Matched(c, rs, k + 1)
Counts(q) == [v \in Elems |-> Count(q, v)]

\* C9: as a multiset the result is list with, for each entry of rems in order,
\* one occurrence of it removed if one is left; elements that are no entry of
\* rems keep their multiplicity, the length drops by the number of matched
\* entries, and an empty list gives an empty result.
C9_MultisetDifference ==
    Returned =>
        /\ Counts(remRet) = RemoveFromCounts(Counts(list0), rems0, 1)
        /\ \A v \in Elems \ Range(rems0) : Count(remRet, v) = Count(list0, v)
        /\ \A v \in Elems : Count(list0, v) - Count(remRet, v) <= Count(rems0, v)
        /\ Len(remRet) = Len(list0) - Matched(Counts(list0), rems0, 1)
        /\ list0 = <<>> => remRet = <<>>
C9_Witness ==
    /\ Returned
    /\ list0 = <<"a", "b", "a">>
    /\ rems0 = <<"a", "c", "a">>
    /\ remRet = <<"b">>

=============================================================================
